---------------------------- MODULE Spec2Model ----------------------------
(***************************************************************************)
(* Chromosome generation, repair, decoding and feasibility check of the    *)
(* CVRP heuristic in gatsp.cpp.  One individual of the population is       *)
(* followed through initPopulationSeq, repairZero, repairCustomer and      *)
(* decodeSeq (Spec); the operators are also run on arbitrary inputs        *)
(* (SpecRZ, SpecRC, SpecDec, SpecChk).                                     *)
(*                                                                         *)
(* C++ vectors are 0-based; sequences here are 1-based, so the C++ element *)
(* seq[i] is written s[i + 1].  The loop index i keeps its C++ value.      *)
(***************************************************************************)
EXTENDS Integers, Sequences, FiniteSets

\* Bounds of the instances explored.
MaxN == 4
MaxV == 3
MaxCap == 2
MaxDem == 2
MaxLen == 4

VARIABLES
    pc,         \* position in the run
    n,          \* DIMENSION: node ids are 1..n
    vehicle,    \* number of vehicles
    capacity,   \* CAPACITY
    demand,     \* demand of the ids 2..n
    depot,      \* depot id read from DEPOT_SECTION
    groups,     \* the bins built by initPopulationSeq
    seq0,       \* the chromosome as handed to the operator under study
    seq,        \* the chromosome being repaired / decoded
    zeroCount,  \* repairZero: local zeroCount
    needZero,   \* repairZero: local needZero
    i,          \* repairZero: index of the for loop
    routes,     \* routes emitted by decodeSeq / handed to checkSolution
    result,     \* value returned by checkSolution
    ub          \* the run has executed undefined behaviour

vars == <<pc, n, vehicle, capacity, demand, depot, groups, seq0, seq,
          zeroCount, needZero, i, routes, result, ub>>

----------------------------------------------------------------------------
(* Helpers on vectors *)

RECURSIVE CountTok(_, _)
\* std::count(seq.begin(), seq.end(), t)
CountTok(s, t) ==
    IF s = <<>> THEN 0
    ELSE (IF Head(s) = t THEN 1 ELSE 0) + CountTok(Tail(s), t)

\* seq.erase(seq.begin() + k), k 0-based
Erase(s, k) == SubSeq(s, 1, k) \o SubSeq(s, k + 2, Len(s))

\* std::find(seq.begin(), seq.end(), 0): 0-based position, Len(s) for end()
FindZero(s) ==
    IF \E k \in 1..Len(s) : s[k] = 0
    THEN (CHOOSE k \in 1..Len(s) : s[k] = 0 /\ \A j \in 1..(k - 1) : s[j] # 0) - 1
    ELSE Len(s)

\* every order std::shuffle can leave the customers 2..n in
Shuffles(nn) ==
    {p \in [1..(nn - 1) -> 2..nn] : \A a, b \in 1..(nn - 1) : a # b => p[a] # p[b]}

----------------------------------------------------------------------------
(* initPopulationSeq, one individual *)

\* mutant: the customer that opens a new bin is dropped
PackStepDrop(st, cust, dem, cap) ==
    IF st.load + dem[cust] <= cap
    THEN [groups |-> st.groups, cur |-> Append(st.cur, cust),
          load |-> st.load + dem[cust]]
    ELSE [groups |-> Append(st.groups, st.cur), cur |-> <<>>, load |-> 0]

\* mutant: the load of a new bin starts at 0 instead of its customer's demand
PackStepLoadZero(st, cust, dem, cap) ==
    IF st.load + dem[cust] <= cap
    THEN [groups |-> st.groups, cur |-> Append(st.cur, cust),
          load |-> st.load + dem[cust]]
    ELSE [groups |-> Append(st.groups, st.cur), cur |-> <<cust>>, load |-> 0]

\* one turn of the packing loop: st = [groups, cur, load]
PackStep(st, cust, dem, cap) ==
    IF st.load + dem[cust] <= cap
    THEN [groups |-> st.groups, cur |-> Append(st.cur, cust),
          load |-> st.load + dem[cust]]
    ELSE [groups |-> Append(st.groups, st.cur), cur |-> <<cust>>,
          load |-> dem[cust]]

RECURSIVE PackFrom(_, _, _, _, _)
PackFrom(customers, k, st, dem, cap) ==
    IF k > Len(customers)
    THEN (IF st.cur # <<>> THEN Append(st.groups, st.cur) ELSE st.groups)
    ELSE PackFrom(customers, k + 1, PackStep(st, customers[k], dem, cap), dem, cap)

Pack(customers, dem, cap) ==
    PackFrom(customers, 1, [groups |-> <<>>, cur |-> <<>>, load |-> 0], dem, cap)

RECURSIVE PadGroups(_, _)
PadGroups(gs, v) == IF Len(gs) < v THEN PadGroups(Append(gs, <<>>), v) ELSE gs

RECURSIVE JoinGroups(_, _)
\* groups k..Len(gs) laid out with a 0 after every group but the last
JoinGroups(gs, k) ==
    IF k > Len(gs) THEN <<>>
    ELSE gs[k] \o (IF k # Len(gs) THEN <<0>> ELSE <<>>) \o JoinGroups(gs, k + 1)

----------------------------------------------------------------------------
(* repairZero *)

\* mutant: the loop is entered once more when the count is already right
RZWhileCondGE(zc, need) == zc >= need

\* while (zeroCount > needZero)
RZWhileCond(zc, need) == zc > need

\* i < seq.size() - 1, the right side being unsigned
RZForCond(k, s) == IF Len(s) = 0 THEN TRUE ELSE k < Len(s) - 1

\* seq[i] == 0 && (i == 0 || i == size - 1 || (i + 1 < size && seq[i + 1] == 0))
RZAdjacent(s, k) ==
    /\ s[k + 1] = 0
    /\ \/ k = 0
       \/ k = Len(s) - 1
       \/ (k + 1 < Len(s) /\ s[k + 2] = 0)

\* the body of the for loop at index k: [seq, zc, brk]
RZBody(s, zc, need, k) ==
    LET a == IF RZAdjacent(s, k)
             THEN [seq |-> Erase(s, k), zc |-> zc - 1, brk |-> (zc - 1 = need)]
             ELSE [seq |-> s, zc |-> zc, brk |-> FALSE]
    IN  IF a.brk THEN a
        ELSE IF a.zc > need
             THEN LET it == FindZero(a.seq)
                      b  == IF it # Len(a.seq)
                            THEN [seq |-> Erase(a.seq, it), zc |-> a.zc - 1]
                            ELSE [seq |-> a.seq, zc |-> a.zc]
                  IN  [seq |-> b.seq, zc |-> b.zc, brk |-> (b.zc = need)]
             ELSE a

----------------------------------------------------------------------------
(* repairCustomer *)

\* count[v]++ for every non-separator token; indices 0..n
CountVec(s, nn) == [v \in 0..nn |-> IF v = 0 THEN 0 ELSE CountTok(s, v)]

RECURSIVE RCScan(_, _, _, _, _)
\* for (int& v : seq) from position k (1-based) on: [seq, count, oob, pos]
RCScan(s, cnt, missing, idx, k) ==
    IF k > Len(s) THEN [seq |-> s, count |-> cnt, oob |-> FALSE, pos |-> 0]
    ELSE IF s[k] # 0 /\ cnt[s[k]] > 1
         THEN IF idx >= Len(missing)
              THEN [seq |-> s, count |-> cnt, oob |-> TRUE, pos |-> k]
              ELSE LET v  == missing[idx + 1]
                       s2 == [s EXCEPT ![k] = v]
                       c2 == [cnt EXCEPT ![v] = @ - 1]
                   IN  IF idx + 1 >= Len(missing)
                       THEN [seq |-> s2, count |-> c2, oob |-> FALSE, pos |-> 0]
                       ELSE RCScan(s2, c2, missing, idx + 1, k + 1)
         ELSE RCScan(s, cnt, missing, idx, k + 1)

RECURSIVE RCOuter(_, _, _, _, _)
\* for (int i = 2; i <= n; ++i) { ... } from i = k on
RCOuter(s, cnt, missing, k, nn) ==
    IF k > nn THEN [seq |-> s, oob |-> FALSE, pos |-> 0]
    ELSE LET m == IF cnt[k] = 0 THEN Append(missing, k) ELSE missing
             r == RCScan(s, cnt, m, 0, 1)
         IN  IF r.oob THEN [seq |-> r.seq, oob |-> TRUE, pos |-> r.pos]
             ELSE RCOuter(r.seq, r.count, m, k + 1, nn)

repairCustomer(s, nn) == RCOuter(s, CountVec(s, nn), <<>>, 2, nn)

----------------------------------------------------------------------------
(* decodeSeq *)

\* mutant: the route left after the scan is emitted even when it is empty
DecodeTailAlways(rs, cur, dep) == Append(rs, Append(cur, dep))

\* mutant: the route left after the scan is dropped when it holds one customer
DecodeTailDropsOne(rs, cur, dep) ==
    IF Len(cur) > 2 THEN Append(rs, Append(cur, dep)) ELSE rs

\* if (currentRoute.size() > 1) { push depot; emit }
DecodeTail(rs, cur, dep) ==
    IF Len(cur) > 1 THEN Append(rs, Append(cur, dep)) ELSE rs

RECURSIVE DecodeFrom(_, _, _, _, _)
DecodeFrom(s, k, rs, cur, dep) ==
    IF k > Len(s)
    THEN DecodeTail(rs, cur, dep)
    ELSE IF s[k] = 0
         THEN DecodeFrom(s, k + 1, Append(rs, Append(cur, dep)), <<dep>>, dep)
         ELSE DecodeFrom(s, k + 1, rs, Append(cur, s[k]), dep)

decodeSeq(s, dep) == DecodeFrom(s, 1, <<>>, <<dep>>, dep)

----------------------------------------------------------------------------
(* The run of one individual *)

Init ==
    /\ pc = "start"
    /\ n \in 1..MaxN
    /\ vehicle \in 1..MaxV
    /\ capacity \in 0..MaxCap
    /\ demand \in [2..n -> 0..MaxDem]
    /\ depot \in 1..n
    /\ groups = <<>>
    /\ seq0 = <<>>
    /\ seq = <<>>
    /\ zeroCount = 0
    /\ needZero = 0
    /\ i = 0
    /\ routes = <<>>
    /\ result = FALSE
    /\ ub = FALSE

Generate ==
    /\ pc = "start"
    /\ \E customers \in Shuffles(n) :
          LET gs == PadGroups(Pack(customers, demand, capacity), vehicle)
          IN  /\ groups' = gs
              /\ seq' = JoinGroups(gs, 1)
              /\ seq0' = JoinGroups(gs, 1)
    /\ pc' = "generated"
    /\ UNCHANGED <<n, vehicle, capacity, demand, depot, zeroCount, needZero, i,
                   routes, result, ub>>

RZEnter ==
    /\ pc = "generated"
    /\ zeroCount' = CountTok(seq, 0)
    /\ needZero' = vehicle - 1
    /\ pc' = "rz_while"
    /\ UNCHANGED <<n, vehicle, capacity, demand, depot, groups, seq0, seq, i,
                   routes, result, ub>>

RZWhile ==
    /\ pc = "rz_while"
    /\ IF RZWhileCond(zeroCount, needZero)
       THEN pc' = "rz_for" /\ i' = 1
       ELSE pc' = "rz_done" /\ i' = i
    /\ UNCHANGED <<n, vehicle, capacity, demand, depot, groups, seq0, seq,
                   zeroCount, needZero, routes, result, ub>>

RZFor ==
    /\ pc = "rz_for"
    /\ IF ~RZForCond(i, seq)
       THEN /\ pc' = "rz_while"
            /\ UNCHANGED <<seq, zeroCount, i, ub>>
       ELSE IF i >= Len(seq)
            THEN /\ pc' = "ub"
                 /\ ub' = TRUE
                 /\ UNCHANGED <<seq, zeroCount, i>>
            ELSE LET r == RZBody(seq, zeroCount, needZero, i)
                 IN  /\ seq' = r.seq
                     /\ zeroCount' = r.zc
                     /\ IF r.brk
                        THEN pc' = "rz_while" /\ i' = i
                        ELSE pc' = "rz_for" /\ i' = i + 1
                     /\ ub' = ub
    /\ UNCHANGED <<n, vehicle, capacity, demand, depot, groups, seq0, needZero,
                   routes, result>>

RepairCustomer ==
    /\ pc = "rz_done"
    /\ LET r == repairCustomer(seq, n)
       IN  IF r.oob
           THEN /\ pc' = "ub"
                /\ ub' = TRUE
                /\ \E g \in 0..n : seq' = [r.seq EXCEPT ![r.pos] = g]
           ELSE /\ pc' = "repaired"
                /\ ub' = ub
                /\ seq' = r.seq
    /\ UNCHANGED <<n, vehicle, capacity, demand, depot, groups, seq0, zeroCount,
                   needZero, i, routes, result>>

Decode ==
    /\ pc = "repaired"
    /\ routes' = decodeSeq(seq, depot)
    /\ pc' = "decoded"
    /\ UNCHANGED <<n, vehicle, capacity, demand, depot, groups, seq0, seq,
                   zeroCount, needZero, i, result, ub>>

Next == Generate \/ RZEnter \/ RZWhile \/ RZFor \/ RepairCustomer \/ Decode

Spec == Init /\ [][Next]_vars


\* a single-threaded run always takes its next step
LiveSpec == Spec /\ WF_vars(Next)

----------------------------------------------------------------------------
(* repairZero on an arbitrary chromosome *)

RECURSIVE SeqsUpTo(_, _)
\* every sequence over toks of length at most len
SeqsUpTo(toks, len) ==
    IF len = 0 THEN {<<>>}
    ELSE LET shorter == SeqsUpTo(toks, len - 1)
         IN  shorter \cup {Append(s, t) : s \in {x \in shorter : Len(x) = len - 1}, t \in toks}

InitRZ ==
    /\ pc = "generated"
    /\ n \in 1..MaxN
    /\ vehicle \in 1..MaxV
    /\ capacity = 0
    /\ demand = [c \in 2..n |-> 0]
    /\ depot = 1
    /\ groups = <<>>
    /\ seq \in SeqsUpTo({0} \cup 2..n, MaxLen)
    /\ seq0 = seq
    /\ zeroCount = 0
    /\ needZero = 0
    /\ i = 0
    /\ routes = <<>>
    /\ result = FALSE
    /\ ub = FALSE

NextRZ == RZEnter \/ RZWhile \/ RZFor

SpecRZ == InitRZ /\ [][NextRZ]_vars

----------------------------------------------------------------------------
(* repairCustomer on an arbitrary chromosome of n - 1 customer tokens *)

InitRC ==
    /\ pc = "rz_done"
    /\ n \in 1..MaxN
    /\ vehicle = 1
    /\ capacity = 0
    /\ demand = [c \in 2..n |-> 0]
    /\ depot = 1
    /\ groups = <<>>
    /\ seq \in {s \in SeqsUpTo({0} \cup 2..n, MaxLen + 1) :
                   Len(s) - CountTok(s, 0) = n - 1}
    /\ seq0 = seq
    /\ zeroCount = 0
    /\ needZero = 0
    /\ i = 0
    /\ routes = <<>>
    /\ result = FALSE
    /\ ub = FALSE

NextRC == RepairCustomer

SpecRC == InitRC /\ [][NextRC]_vars

----------------------------------------------------------------------------
(* decodeSeq on an arbitrary chromosome without the depot id *)

InitDec ==
    /\ pc = "repaired"
    /\ n \in 1..MaxN
    /\ depot \in 1..n
    /\ seq \in SeqsUpTo({0} \cup ((1..n) \ {depot}), MaxLen)
    /\ vehicle = CountTok(seq, 0) + 1
    /\ capacity = 0
    /\ demand = [c \in 2..n |-> 0]
    /\ groups = <<>>
    /\ seq0 = seq
    /\ zeroCount = 0
    /\ needZero = 0
    /\ i = 0
    /\ routes = <<>>
    /\ result = FALSE
    /\ ub = FALSE

NextDec == Decode

SpecDec == InitDec /\ [][NextDec]_vars

----------------------------------------------------------------------------
(* checkSolution on an arbitrary list of depot-rooted routes *)

RECURSIVE routeDemandFrom(_, _, _)
\* for (size_t i = 1; i < route.size() - 1; ++i) sum += demand[route[i]]
\* (route.size() >= 1: decodeSeq emits no empty route)
routeDemandFrom(route, dem, k) ==
    IF k < Len(route) - 1
    THEN dem[route[k + 1]] + routeDemandFrom(route, dem, k + 1)
    ELSE 0

routeDemand(route, dem) == routeDemandFrom(route, dem, 1)

RECURSIVE VisitFrom(_, _, _)
\* the marking loop of one route from index k on: [hit, visited]
VisitFrom(route, k, visited) ==
    IF k < Len(route) - 1
    THEN IF visited[route[k + 1]]
         THEN [hit |-> TRUE, visited |-> visited]
         ELSE VisitFrom(route, k + 1, [visited EXCEPT ![route[k + 1]] = TRUE])
    ELSE [hit |-> FALSE, visited |-> visited]

\* mutant: the coverage loop starts one id too late
AllVisitedFrom3(visited, nn) == \A c \in 3..nn : visited[c]

\* for (int i = 2; i <= n; ++i) if (!visited[i]) return false;
AllVisited(visited, nn) == \A c \in 2..nn : visited[c]

RECURSIVE CheckFrom(_, _, _, _, _, _)
CheckFrom(rs, k, visited, dem, cap, nn) ==
    IF k > Len(rs) THEN AllVisited(visited, nn)
    ELSE IF routeDemand(rs[k], dem) > cap THEN FALSE
         ELSE LET v == VisitFrom(rs[k], 1, visited)
              IN  IF v.hit THEN FALSE
                  ELSE CheckFrom(rs, k + 1, v.visited, dem, cap, nn)

checkSolution(rs, dem, cap, nn) ==
    CheckFrom(rs, 1, [c \in 0..nn |-> FALSE], dem, cap, nn)

RECURSIVE RoutesOf(_, _)
\* the route list whose interiors are the separator-free segments of t
RoutesOf(t, cur) ==
    IF t = <<>> THEN <<Append(cur, 1)>>
    ELSE IF Head(t) = 0
         THEN <<Append(cur, 1)>> \o RoutesOf(Tail(t), <<1>>)
         ELSE RoutesOf(Tail(t), Append(cur, Head(t)))

\* the worked example: capacity 10, demands {2:4, 3:5, 4:3}
ExampleDemand == [c \in 2..4 |-> IF c = 2 THEN 4 ELSE IF c = 3 THEN 5 ELSE 3]
ExampleRoutes == <<<<1, 2, 3, 1>>, <<1, 4, 1>>>>

InitChk ==
    /\ pc = "routes"
    /\ \/ /\ n \in 1..(MaxN - 1)
          /\ capacity \in 0..MaxCap
          /\ demand \in [2..n -> 0..MaxDem]
          /\ routes \in {RoutesOf(t, <<1>>) : t \in SeqsUpTo({0} \cup 2..n, MaxLen)}
                           \cup {<<>>}
       \/ /\ n = 4
          /\ capacity = 10
          /\ demand = ExampleDemand
          /\ routes = ExampleRoutes
    /\ vehicle = 1
    /\ depot = 1
    /\ groups = <<>>
    /\ seq = <<>>
    /\ seq0 = <<>>
    /\ zeroCount = 0
    /\ needZero = 0
    /\ i = 0
    /\ result = FALSE
    /\ ub = FALSE

Check ==
    /\ pc = "routes"
    /\ result' = checkSolution(routes, demand, capacity, n)
    /\ pc' = "checked"
    /\ UNCHANGED <<n, vehicle, capacity, demand, depot, groups, seq0, seq,
                   zeroCount, needZero, i, routes, ub>>

NextChk == Check

SpecChk == InitChk /\ [][NextChk]_vars

----------------------------------------------------------------------------
(* Vocabulary of the properties *)

RECURSIVE SplitFrom(_, _, _)
\* the maximal separator-free segments of s, in order (one more than separators)
SplitFrom(s, k, cur) ==
    IF k > Len(s) THEN <<cur>>
    ELSE IF s[k] = 0 THEN <<cur>> \o SplitFrom(s, k + 1, <<>>)
         ELSE SplitFrom(s, k + 1, Append(cur, s[k]))

Segments(s) == SplitFrom(s, 1, <<>>)

RECURSIVE SumDemand(_, _)
SumDemand(g, dem) == IF g = <<>> THEN 0 ELSE dem[Head(g)] + SumDemand(Tail(g), dem)

Interior(r) == SubSeq(r, 2, Len(r) - 1)

RECURSIVE Interiors(_)
\* the interiors of the routes laid end to end
Interiors(rs) == IF rs = <<>> THEN <<>> ELSE Interior(Head(rs)) \o Interiors(Tail(rs))

RECURSIVE JoinRoutes(_)
\* the interiors of the routes with one separator between consecutive routes
JoinRoutes(rs) ==
    IF rs = <<>> THEN <<>>
    ELSE IF Len(rs) = 1 THEN Interior(rs[1])
         ELSE Interior(rs[1]) \o <<0>> \o JoinRoutes(Tail(rs))

Repaired == pc \in {"repaired", "decoded"}

\* C1: every chromosome that initPopulationSeq produced and that repairZero and
\* repairCustomer returned holds exactly vehicle - 1 separators; repairZero
\* never takes the count below vehicle - 1 and never returns above it.
C1_SeparatorCount ==
    /\ pc \in {"rz_while", "rz_for", "rz_done", "repaired", "decoded"}
          => /\ CountTok(seq, 0) >= vehicle - 1
             /\ zeroCount = CountTok(seq, 0)
    /\ pc \in {"rz_done", "repaired", "decoded"} => CountTok(seq, 0) = vehicle - 1

\* C1 witness: a generated chromosome with too many separators came out of
\* both repairs with vehicle - 1 of them.
C1_Witness ==
    /\ pc = "repaired"
    /\ CountTok(seq0, 0) > vehicle - 1
    /\ vehicle > 1
    /\ CountTok(seq, 0) = vehicle - 1

\* C2: every generated-then-repaired chromosome holds each customer id of
\* 2..n exactly once and no other non-separator token.
C2_EachCustomerOnce ==
    Repaired =>
        /\ \A c \in 2..n : CountTok(seq, c) = 1
        /\ \A k \in 1..Len(seq) : seq[k] \in {0} \cup 2..n

\* C2 witness: a repaired chromosome of three customers that repairZero changed.
C2_Witness ==
    /\ pc = "repaired"
    /\ n >= 4
    /\ seq # seq0
    /\ \A c \in 2..n : CountTok(seq, c) = 1

\* C3: repairZero terminates on every chromosome initPopulationSeq produces.
C3_RepairZeroTerminates == (pc = "generated") ~> (pc = "rz_done")

\* C9: for every depot id in 1..n, no generated-then-repaired chromosome holds
\* the depot id, and no decoded route has the depot id in its interior.
C9_NoDepotToken ==
    /\ Repaired => \A k \in 1..Len(seq) : seq[k] # depot
    /\ pc = "decoded" =>
          \A r \in 1..Len(routes) :
              \A k \in 2..(Len(routes[r]) - 1) : routes[r][k] # depot

RECURSIVE RefRepairCustomer(_, _, _, _)
\* the stated repair: left to right, a token whose id still counts more than
\* once is replaced by the next missing id and its id's count goes down by one
RefRepairCustomer(s, k, cnt, missing) ==
    IF k > Len(s) \/ missing = <<>> THEN s
    ELSE IF s[k] # 0 /\ cnt[s[k]] > 1
         THEN RefRepairCustomer([s EXCEPT ![k] = Head(missing)], k + 1,
                                [cnt EXCEPT ![s[k]] = @ - 1], Tail(missing))
         ELSE RefRepairCustomer(s, k + 1, cnt, missing)

RECURSIVE MissingFrom(_, _, _)
\* the ids of k..nn absent from s, ascending
MissingFrom(s, k, nn) ==
    IF k > nn THEN <<>>
    ELSE (IF CountTok(s, k) = 0 THEN <<k>> ELSE <<>>) \o MissingFrom(s, k + 1, nn)

\* C4: on a chromosome of n - 1 customer tokens from 2..n, repairCustomer reads
\* only inside the missing list and leaves every id of 2..n exactly once, each
\* duplicate occurrence replaced by the next missing id, everything else in place.
C4_RepairCustomerFixes ==
    pc \in {"repaired", "ub"} =>
        /\ ~ub
        /\ \A c \in 2..n : CountTok(seq, c) = 1
        /\ seq = RefRepairCustomer(seq0, 1, CountVec(seq0, n), MissingFrom(seq0, 2, n))

RECURSIVE RefRepairZero(_, _)
\* the stated two-phase removal: the leftmost separator followed by another
\* separator while there is one, the leftmost separator otherwise
RefRepairZero(s, need) ==
    IF CountTok(s, 0) <= need THEN s
    ELSE IF \E k \in 1..(Len(s) - 1) : s[k] = 0 /\ s[k + 1] = 0
         THEN LET k == CHOOSE a \in 1..(Len(s) - 1) :
                          /\ s[a] = 0 /\ s[a + 1] = 0
                          /\ \A b \in 1..(a - 1) : ~(s[b] = 0 /\ s[b + 1] = 0)
              IN  RefRepairZero(Erase(s, k - 1), need)
         ELSE RefRepairZero(Erase(s, FindZero(s)), need)

\* C5: on a chromosome with more than vehicle - 1 separators repairZero returns
\* what the two-phase removal (adjacent separators first, leftmost first) returns.
C5_PreferenceOrder ==
    (pc = "rz_done" /\ CountTok(seq0, 0) > vehicle - 1)
        => seq = RefRepairZero(seq0, vehicle - 1)

\* C6: on depot-rooted routes with interiors in 2..n, checkSolution returns
\* true exactly when every route's demand fits the capacity and every id of
\* 2..n is an interior id exactly once; false on a repeated id, true on the
\* worked example.
C6_CheckSolutionIff ==
    pc = "checked" =>
        /\ result =
              (/\ \A r \in 1..Len(routes) :
                     SumDemand(Interior(routes[r]), demand) <= capacity
               /\ \A c \in 2..n : CountTok(Interiors(routes), c) = 1)
        /\ (\E c \in 2..n : CountTok(Interiors(routes), c) >= 2) => ~result
        /\ (routes = ExampleRoutes /\ demand = ExampleDemand /\ capacity = 10 /\ n = 4)
              => result

\* C6 witness: the worked example has been checked and accepted.
C6_Witness ==
    /\ pc = "checked"
    /\ routes = ExampleRoutes
    /\ demand = ExampleDemand
    /\ capacity = 10
    /\ result

EndsWithSeparator(s) == s # <<>> /\ s[Len(s)] = 0

\* C7: a chromosome of vehicle - 1 separators and no depot id decodes to
\* vehicle routes when its last token is a customer and to vehicle - 1 routes
\* when it is empty or ends with a separator; the k-th route is the k-th
\* segment between two depots, empty segments included, and only the empty
\* segment after the last separator is dropped.
C7_DecodeShape ==
    pc = "decoded" =>
        /\ Len(routes) = IF seq # <<>> /\ ~EndsWithSeparator(seq)
                         THEN vehicle ELSE vehicle - 1
        /\ \A k \in 1..Len(routes) :
              routes[k] = <<depot>> \o Segments(seq)[k] \o <<depot>>
        /\ \A k \in 1..Len(Segments(seq)) :
              k > Len(routes) => (k = Len(Segments(seq)) /\ Segments(seq)[k] = <<>>)
        /\ (seq = <<0, 0>> /\ depot = 1) => routes = <<<<1, 1>>, <<1, 1>>>>

\* C7 witness: <<0, 0>> decoded with depot 1 into two degenerate routes.
C7_Witness ==
    /\ pc = "decoded"
    /\ seq = <<0, 0>>
    /\ depot = 1
    /\ vehicle = 3
    /\ routes = <<<<1, 1>>, <<1, 1>>>>

\* exactly vehicle - 1 separators, each customer id once, no depot id
ValidChromosome ==
    /\ CountTok(seq, 0) = vehicle - 1
    /\ \A c \in (1..n) \ {depot} : CountTok(seq, c) = 1
    /\ CountTok(seq, depot) = 0

\* C8 as stated: joining the interiors of the decoded routes with one
\* separator between consecutive routes gives back the valid chromosome.
C8_RoundTrip ==
    (pc = "decoded" /\ ValidChromosome) => JoinRoutes(routes) = seq

\* C8 amended: the join gives back the valid chromosome, less its last
\* separator when it ends with one.
C8_RoundTripAmended ==
    (pc = "decoded" /\ ValidChromosome) =>
        JoinRoutes(routes) = IF EndsWithSeparator(seq)
                             THEN SubSeq(seq, 1, Len(seq) - 1) ELSE seq

\* C8 witness: a valid chromosome of two customers ending with a separator,
\* decoded; the join lacks that separator.
C8_Witness ==
    /\ pc = "decoded"
    /\ ValidChromosome
    /\ n >= 3
    /\ EndsWithSeparator(seq)
    /\ JoinRoutes(routes) = SubSeq(seq, 1, Len(seq) - 1)

=============================================================================
